---- MODULE Spec2Model ----
(***************************************************************************)
(* Arena resolution and settlement engine of RAGE_Monad.                   *)
(*                                                                         *)
(* src/server.ts holds the socket.io server (lines 1-125) and the React    *)
(* observer (lines 127-663).  The server owns `arenas` and `activityLog`;  *)
(* a one second interval resolves expired arenas; every observer keeps a   *)
(* copy of the arena collection and an advisory balance.                   *)
(*                                                                         *)
(* Amounts are fixed point: 1 MND = 10000 units.  Time is counted in       *)
(* arena durations of 5 minutes (the code counts milliseconds).  Strings   *)
(* that the code builds by interpolation are records of their parts.       *)
(***************************************************************************)
EXTENDS Integers, Sequences, FiniteSets, TLC

VARIABLES
    arenas,        \* server: let arenas: any[]                (server.ts:18)
    activityLog,   \* server: let activityLog: any[]           (server.ts:19)
    now,           \* Date.now()
    emitted,       \* what the last server handler emitted on the sockets
    currentUser,   \* observer: useState<UserAccount | null>   (server.ts:177)
    cArenas,       \* observer: useState<Arena[]>              (server.ts:178)
    prevArenasRef, \* observer: useRef<Arena[]>                (server.ts:180)
    activityFeed,  \* observer: useState<ActivityLog[]>        (server.ts:184)
    inbox,         \* events on their way from the server to the observer
    outbox,        \* commands on their way from the observer to the server
    staked         \* history: amounts the observer has staked, per (arena, roast)

serverVars == <<arenas, activityLog, now, emitted>>
clientVars == <<currentUser, cArenas, prevArenasRef, activityFeed, inbox, outbox, staked>>
vars == <<arenas, activityLog, now, emitted, currentUser, cArenas, prevArenasRef,
          activityFeed, inbox, outbox, staked>>

----
\* Bounds of the model.
MaxArenas == 2
MaxRoasts == 2
MaxBacked == 2
MaxLogCalls == 4
MaxInbox == 0
MaxJoins == 16

\* Program constants (amounts in 1/10000 MND, time in units of 5 minutes).
ArenaStake == 500
ArenaDuration == 1
LogBound == 15
BacklogReplay == 10
StakeAmount == 500
EntryFee == 100
Airdrop == 100000
FeedBound == 10

\* Values the payloads are drawn from.
ArenaIds == {"a1", "a2"}
RoastIds == {"r1", "r2"}
IdOrder == <<"a1", "a2", "r1", "r2">>
Me == "u1"
Others == {"u2"}
None == "undefined"
NoUser == [id |-> None, balance |-> 0]

----
\* Generic sequence helpers (Array.prototype.slice(0, n), map, find).
Slice(s, n) == SubSeq(s, 1, IF Len(s) < n THEN Len(s) ELSE n)

\* The k-th arena in creation order: create-arena prepends, nothing deletes.
FromEnd(s, k) == s[Len(s) + 1 - k]

----
\* logActivity: id, message and timestamp in front, cut to 15.
LogCalls == IF activityLog = <<>> THEN 0 ELSE Head(activityLog).id

NewLog(log, msg) ==
    [id |-> (IF log = <<>> THEN 0 ELSE Head(log).id) + 1, message |-> msg]

logActivityKeepsAll(log, msg) == <<NewLog(log, msg)>> \o log

logActivity(log, msg) == Slice(<<NewLog(log, msg)>> \o log, LogBound)

ActivityUpdate(log) == [event |-> "activity-update", to |-> "all", log |-> log]
StateUpdate(as, dest) == [event |-> "state-update", to |-> dest, arenas |-> as]

----
\* The winner reduce of the tick: arena.roasts.reduce((prev, current) =>
\*   (current.backedStake > prev.backedStake) ? current : prev)
PickWinnerLast(prev, current) ==
    IF current.backedStake >= prev.backedStake THEN current ELSE prev

PickWinner(prev, current) ==
    IF current.backedStake > prev.backedStake THEN current ELSE prev

RECURSIVE ReduceFrom(_, _, _)
ReduceFrom(roasts, i, prev) ==
    IF i > Len(roasts) THEN prev
    ELSE ReduceFrom(roasts, i + 1, PickWinner(prev, roasts[i]))

ReduceWinner(roasts) == ReduceFrom(roasts, 2, roasts[1])

ExpiredAgain(arena, t) == arena.endTime <= t

ExpiredEarly(arena, t) == arena.status = "active"

ExpiredLate(arena, t) == arena.status = "active" /\ arena.endTime < t

Expired(arena, t) == arena.status = "active" /\ arena.endTime <= t

ResolveArenaReopen(arena, t) ==
    IF ~Expired(arena, t) THEN [arena EXCEPT !.status = "active"]
    ELSE IF Len(arena.roasts) = 0 THEN [arena EXCEPT !.status = "resolved"]
    ELSE [arena EXCEPT !.status = "resolved",
                       !.winnerRoastId = ReduceWinner(arena.roasts).id]

\* What the map callback of the tick returns for one arena.
ResolveArenaSkipsEmpty(arena, t) ==
    IF ~Expired(arena, t) \/ Len(arena.roasts) = 0 THEN arena
    ELSE [arena EXCEPT !.status = "resolved",
                       !.winnerRoastId = ReduceWinner(arena.roasts).id]

ResolveArena(arena, t) ==
    IF ~Expired(arena, t) THEN arena
    ELSE IF Len(arena.roasts) = 0 THEN [arena EXCEPT !.status = "resolved"]
    ELSE [arena EXCEPT !.status = "resolved",
                       !.winnerRoastId = ReduceWinner(arena.roasts).id]

\* The message the map callback logs for one expired arena.
ResolveMessage(arena) ==
    IF Len(arena.roasts) = 0
    THEN [kind |-> "closed", who |-> arena.opId]
    ELSE [kind |-> "won", who |-> ReduceWinner(arena.roasts).roasterId]

\* The log entries the tick creates, in map order (index 1 first).
RECURSIVE TickLogs(_, _, _, _)
TickLogs(as, t, i, log) ==
    IF i > Len(as) THEN <<>>
    ELSE IF Expired(as[i], t)
         THEN <<NewLog(log, ResolveMessage(as[i]))>>
              \o TickLogs(as, t, i + 1, logActivity(log, ResolveMessage(as[i])))
         ELSE TickLogs(as, t, i + 1, log)

RECURSIVE LogAll(_, _)
LogAll(log, entries) ==
    IF entries = <<>> THEN log
    ELSE LogAll(Slice(<<Head(entries)>> \o log, LogBound), Tail(entries))

TickAlwaysBroadcasts ==
    LET logs == TickLogs(arenas, now, 1, activityLog)
        after == [i \in 1..Len(arenas) |-> ResolveArena(arenas[i], now)]
    IN  /\ arenas' = after
        /\ activityLog' = LogAll(activityLog, logs)
        /\ emitted' = [i \in 1..Len(logs) |-> ActivityUpdate(logs[i])]
                      \o <<StateUpdate(after, "all")>>
        /\ UNCHANGED now

\* setInterval(() => { ... }, 1000)
Tick ==
    LET logs == TickLogs(arenas, now, 1, activityLog)
        didUpdate == \E i \in 1..Len(arenas) : Expired(arenas[i], now)
        after == [i \in 1..Len(arenas) |-> ResolveArena(arenas[i], now)]
    IN  /\ arenas' = after
        /\ activityLog' = LogAll(activityLog, logs)
        /\ emitted' = [i \in 1..Len(logs) |-> ActivityUpdate(logs[i])]
                      \o (IF didUpdate THEN <<StateUpdate(after, "all")>> ELSE <<>>)
        /\ UNCHANGED now

\* Time passes between two handlers.
AdvanceTime ==
    /\ now' = now + 1
    /\ UNCHANGED <<arenas, activityLog, emitted>>

----
ConnectReplaysAll ==
    /\ emitted' = <<StateUpdate(arenas, "socket")>>
                  \o [i \in 1..Len(activityLog) |->
                        [event |-> "activity-update", to |-> "socket",
                         log |-> activityLog[i]]]
    /\ UNCHANGED <<arenas, activityLog, now>>

\* io.on('connection'): the snapshot, then the 10 newest log entries.
OnConnection(as, log) ==
    <<StateUpdate(as, "socket")>>
       \o [i \in 1..Len(Slice(log, BacklogReplay)) |->
             [event |-> "activity-update", to |-> "socket", log |-> log[i]]]

Connect ==
    /\ emitted' = OnConnection(arenas, activityLog)
    /\ UNCHANGED <<arenas, activityLog, now>>

\* socket.on('join')
Join(userHandle) ==
    LET msg == [kind |-> "joined", who |-> userHandle]
    IN  /\ activityLog' = logActivity(activityLog, msg)
        /\ emitted' = <<ActivityUpdate(NewLog(activityLog, msg))>>
        /\ UNCHANGED <<arenas, now>>

\* socket.on('create-arena'): the payload is spread first, then id, stake,
\* endTime, status and roasts are set; newId is Math.random().  A payload is
\* a record of the arena's fields; a field it does not carry holds the value
\* of an absent one.
NewArenaAsSent(arenaData, newId, t) ==
    [arenaData EXCEPT !.id = newId,
                      !.stake = ArenaStake,
                      !.endTime = t + ArenaDuration]

NewArena(arenaData, newId, t) ==
    [arenaData EXCEPT !.id = newId,
                      !.stake = ArenaStake,
                      !.endTime = t + ArenaDuration,
                      !.status = "active",
                      !.roasts = <<>>]

CreateArenaReplaces(arenaData, newId) ==
    LET newArena == NewArena(arenaData, newId, now)
        msg == [kind |-> "dropped", who |-> newArena.opId]
    IN  /\ arenas' = <<newArena>>
        /\ activityLog' = logActivity(activityLog, msg)
        /\ emitted' = <<ActivityUpdate(NewLog(activityLog, msg)),
                        StateUpdate(arenas', "all")>>
        /\ UNCHANGED now

CreateArenaAppends(arenaData, newId) ==
    LET newArena == NewArena(arenaData, newId, now)
        msg == [kind |-> "dropped", who |-> newArena.opId]
    IN  /\ arenas' = arenas \o <<newArena>>
        /\ activityLog' = logActivity(activityLog, msg)
        /\ emitted' = <<ActivityUpdate(NewLog(activityLog, msg)),
                        StateUpdate(arenas', "all")>>
        /\ UNCHANGED now

CreateArena(arenaData, newId) ==
    LET newArena == NewArena(arenaData, newId, now)
        msg == [kind |-> "dropped", who |-> newArena.opId]
    IN  /\ arenas' = <<newArena>> \o arenas
        /\ activityLog' = logActivity(activityLog, msg)
        /\ emitted' = <<ActivityUpdate(NewLog(activityLog, msg)),
                        StateUpdate(arenas', "all")>>
        /\ UNCHANGED now

\* socket.on('submit-roast')
SubmitToArenaInFront(arena, arenaId, roastData) ==
    IF arena.id # arenaId THEN arena
    ELSE [arena EXCEPT !.roasts = <<roastData>> \o arena.roasts]

SubmitToArenaExtends(arena, arenaId, roastData) ==
    IF arena.id # arenaId THEN arena
    ELSE [arena EXCEPT !.roasts = Append(arena.roasts, roastData),
                       !.endTime = arena.endTime + ArenaDuration]

SubmitToEveryArena(arena, arenaId, roastData) ==
    [arena EXCEPT !.roasts = Append(arena.roasts, roastData)]

SubmitToArena(arena, arenaId, roastData) ==
    IF arena.id # arenaId THEN arena
    ELSE [arena EXCEPT !.roasts = Append(arena.roasts, roastData)]

\* arenas.map(...) of submit-roast, on any arena collection.
AfterSubmit(as, arenaId, roastData) ==
    [i \in 1..Len(as) |-> SubmitToArena(as[i], arenaId, roastData)]

SubmitRoast(arenaId, roastData) ==
    LET msg == [kind |-> "entered", who |-> roastData.roasterId]
    IN  /\ arenas' = AfterSubmit(arenas, arenaId, roastData)
        /\ activityLog' = logActivity(activityLog, msg)
        /\ emitted' = <<ActivityUpdate(NewLog(activityLog, msg)),
                        StateUpdate(arenas', "all")>>
        /\ UNCHANGED now

\* socket.on('stake-roast')
StakeOnAnyRoast(roast, roastId, amount) ==
    [roast EXCEPT !.backedStake = roast.backedStake + amount]

StakeOnRoast(roast, roastId, amount) ==
    IF roast.id # roastId THEN roast
    ELSE [roast EXCEPT !.backedStake = roast.backedStake + amount]

StakeInAnyArena(arena, arenaId, roastId, amount) ==
    [arena EXCEPT !.roasts =
        [j \in 1..Len(arena.roasts) |-> StakeOnRoast(arena.roasts[j], roastId, amount)]]

StakeInArena(arena, arenaId, roastId, amount) ==
    IF arena.id # arenaId THEN arena
    ELSE [arena EXCEPT !.roasts =
            [j \in 1..Len(arena.roasts) |-> StakeOnRoast(arena.roasts[j], roastId, amount)]]

\* arenas.map(...) of stake-roast, on any arena collection.
AfterStake(as, arenaId, roastId, amount) ==
    [i \in 1..Len(as) |-> StakeInArena(as[i], arenaId, roastId, amount)]

StakeRoastSilent(arenaId, roastId, amount, userHandle) ==
    /\ arenas' = AfterStake(arenas, arenaId, roastId, amount)
    /\ emitted' = <<StateUpdate(arenas', "all")>>
    /\ UNCHANGED <<activityLog, now>>

StakeRoast(arenaId, roastId, amount, userHandle) ==
    LET msg == [kind |-> "staked", who |-> userHandle]
    IN  /\ arenas' = AfterStake(arenas, arenaId, roastId, amount)
        /\ activityLog' = logActivity(activityLog, msg)
        /\ emitted' = <<ActivityUpdate(NewLog(activityLog, msg)),
                        StateUpdate(arenas', "all")>>
        /\ UNCHANGED now

----
\* The create-arena payload of handleCreateArena: the originator and the
\* text, none of the fields the server sets and no winnerRoastId.
AppArenaData(opId) ==
    [id |-> None, opId |-> opId, stake |-> 0, endTime |-> 0, status |-> None,
     winnerRoastId |-> None, roasts |-> <<>>]

\* A create-arena payload that carries every field of an arena.
ForgedArenaData(opId) ==
    [id |-> "a1", opId |-> opId, stake |-> 2 * ArenaStake, endTime |-> 0,
     status |-> "resolved", winnerRoastId |-> "r1",
     roasts |-> <<[id |-> "r1", roasterId |-> opId, backedStake |-> StakeAmount,
                   myBackedAmount |-> 0]>>]

\* The roastData of handleSubmitRoast: backedStake: 0, myBackedAmount: 0.
AppRoastPayloads ==
    [id : RoastIds, roasterId : Others, backedStake : {0}, myBackedAmount : {0}]

\* Payloads a socket can carry to the server: the server reads them as they
\* come.
CreatePayloads ==
    {AppArenaData(opId) : opId \in Others} \cup {ForgedArenaData(opId) : opId \in Others}

RoastPayloads ==
    [id : RoastIds, roasterId : Others, backedStake : {0, StakeAmount},
     myBackedAmount : {0}]

StakeAmounts == {StakeAmount, 0 - StakeAmount}

\* The store has an arena, or an entry of an arena, with the given ids.
HasArena(arenaId) == \E i \in 1..Len(arenas) : arenas[i].id = arenaId

HasRoast(arenaId, roastId) ==
    \E i \in 1..Len(arenas) : \E j \in 1..Len(arenas[i].roasts) :
        arenas[i].id = arenaId /\ arenas[i].roasts[j].id = roastId

\* Math.random().toString(36).substring(7): an id that is already in use, or
\* a new one.  Ids that are not in use are interchangeable, so the first of
\* them stands for all.
FirstUnused(ids, used) ==
    {IdOrder[n] : n \in {n \in 1..Len(IdOrder) :
                            /\ IdOrder[n] \in ids \ used
                            /\ \A m \in 1..(n - 1) : IdOrder[m] \notin ids \ used}}

RandomId(ids, used) == (ids \cap used) \cup FirstUnused(ids, used)

ArenaIdsUsed == {arenas[i].id : i \in 1..Len(arenas)}

RoastIdsUsed ==
    UNION {{arenas[i].roasts[j].id : j \in 1..Len(arenas[i].roasts)} :
             i \in 1..Len(arenas)}
    \cup {outbox[n].roastData.id :
             n \in {n \in 1..Len(outbox) : outbox[n].cmd = "submit-roast"}}

\* The bounds of the model on the commands.
RoomForArena == Len(arenas) < MaxArenas

RoomForRoast(arenaId) ==
    \A i \in 1..Len(arenas) :
        arenas[i].id = arenaId => Len(arenas[i].roasts) < MaxRoasts

RoomForStake(arenaId, roastId) ==
    \A i \in 1..Len(arenas) : \A j \in 1..Len(arenas[i].roasts) :
        (arenas[i].id = arenaId /\ arenas[i].roasts[j].id = roastId)
           => arenas[i].roasts[j].backedStake < MaxBacked * StakeAmount

\* The commands of the other sockets.
CreateCmd ==
    /\ RoomForArena
    /\ \E arenaData \in CreatePayloads, newId \in RandomId(ArenaIds, ArenaIdsUsed) :
          CreateArena(arenaData, newId)

SubmitCmd ==
    \E arenaId \in ArenaIds, roastData \in RoastPayloads :
        /\ roastData.id \in RandomId(RoastIds, RoastIdsUsed)
        /\ RoomForRoast(arenaId)
        /\ SubmitRoast(arenaId, roastData)

StakeCmd ==
    \E arenaId \in ArenaIds, roastId \in RoastIds, amount \in StakeAmounts,
       userHandle \in Others :
        /\ RoomForStake(arenaId, roastId)
        /\ StakeRoast(arenaId, roastId, amount, userHandle)

JoinCmd == \E userHandle \in Others : Join(userHandle)

\* Time is read only to set and to test deadlines, so it is let pass while an
\* arena waits for its deadline.
Clock ==
    /\ \E i \in 1..Len(arenas) : arenas[i].status = "active" /\ arenas[i].endTime > now
    /\ AdvanceTime

----
Init ==
    /\ arenas = <<>>
    /\ activityLog = <<>>
    /\ now = 0
    /\ emitted = <<>>
    /\ currentUser = NoUser
    /\ cArenas = <<>>
    /\ prevArenasRef = <<>>
    /\ activityFeed = <<>>
    /\ inbox = <<>>
    /\ outbox = <<>>
    /\ staked = [key \in ArenaIds \X RoastIds |-> 0]

\* The server alone, driven by any socket.
Next ==
    \/ (Clock /\ UNCHANGED clientVars)
    \/ (Tick /\ UNCHANGED clientVars)
    \/ (LogCalls < MaxLogCalls /\ JoinCmd /\ UNCHANGED clientVars)
    \/ (LogCalls < MaxLogCalls /\ CreateCmd /\ UNCHANGED clientVars)
    \/ (LogCalls < MaxLogCalls /\ SubmitCmd /\ UNCHANGED clientVars)
    \/ (LogCalls < MaxLogCalls /\ StakeCmd /\ UNCHANGED clientVars)

Spec == Init /\ [][Next]_vars

----
\* The observer (the React App of src/server.ts:127-663), logged in as Me.

\* Array.prototype.find by id: the index of the first match, 0 for undefined.
FindArena(as, arenaId) ==
    IF \E i \in 1..Len(as) : as[i].id = arenaId
    THEN CHOOSE i \in 1..Len(as) :
            as[i].id = arenaId /\ \A m \in 1..(i - 1) : as[m].id # arenaId
    ELSE 0

FindRoast(roasts, roastId) ==
    IF \E j \in 1..Len(roasts) : roasts[j].id = roastId
    THEN CHOOSE j \in 1..Len(roasts) :
            roasts[j].id = roastId /\ \A m \in 1..(j - 1) : roasts[m].id # roastId
    ELSE 0

RECURSIVE SumBacked(_, _, _)
SumBacked(roasts, j, exceptId) ==
    IF j > Len(roasts) THEN 0
    ELSE (IF roasts[j].id # exceptId THEN roasts[j].backedStake ELSE 0)
         + SumBacked(roasts, j + 1, exceptId)

\* processPayout: the amount it adds to the balance of the user (0 if none).
\*   0.9 * L * my / W  is  (9 * L * my) \div (10 * W)  in fixed point,
\*   0.7 * stake       is  (7 * stake) \div 10,
\*   0.7 * (n - 1) * 0.01 is (7 * (n - 1) * EntryFee) \div 10,
\*   0.05 * (L + W)    is  (L + W) \div 20.
PayoutStakeShareOnly(arena, user) ==
    IF user = NoUser \/ Len(arena.roasts) = 0 \/ arena.winnerRoastId = None THEN 0
    ELSE IF FindRoast(arena.roasts, arena.winnerRoastId) = 0 THEN 0
    ELSE LET winner == arena.roasts[FindRoast(arena.roasts, arena.winnerRoastId)]
             losingBackingPool == SumBacked(arena.roasts, 1, winner.id)
             winnerBackingPool == winner.backedStake
             roaster == IF winner.roasterId = user.id
                        THEN (7 * arena.stake) \div 10
                        ELSE 0
             op == IF arena.opId = user.id
                   THEN (losingBackingPool + winnerBackingPool) \div 20
                   ELSE 0
         IN  roaster + op

PayoutFeeOnStake(arena, user) ==
    IF user = NoUser \/ Len(arena.roasts) = 0 \/ arena.winnerRoastId = None THEN 0
    ELSE IF FindRoast(arena.roasts, arena.winnerRoastId) = 0 THEN 0
    ELSE LET winner == arena.roasts[FindRoast(arena.roasts, arena.winnerRoastId)]
             losingBackingPool == SumBacked(arena.roasts, 1, winner.id)
             winnerBackingPool == winner.backedStake
             roaster == IF winner.roasterId = user.id
                        THEN (7 * arena.stake) \div 10
                             + (7 * (Len(arena.roasts) - 1) * EntryFee) \div 10
                        ELSE 0
             op == IF arena.opId = user.id
                   THEN (arena.stake + losingBackingPool + winnerBackingPool) \div 20
                   ELSE 0
         IN  roaster + op

PayoutOnLosingPool(arena, user) ==
    IF user = NoUser \/ Len(arena.roasts) = 0 \/ arena.winnerRoastId = None THEN 0
    ELSE IF FindRoast(arena.roasts, arena.winnerRoastId) = 0 THEN 0
    ELSE LET winner == arena.roasts[FindRoast(arena.roasts, arena.winnerRoastId)]
             losingBackingPool == SumBacked(arena.roasts, 1, winner.id)
             roaster == IF winner.roasterId = user.id
                        THEN (7 * arena.stake) \div 10
                             + (7 * (Len(arena.roasts) - 1) * EntryFee) \div 10
                        ELSE 0
             op == IF arena.opId = user.id
                   THEN losingBackingPool \div 20
                   ELSE 0
         IN  roaster + op

Payout(arena, user) ==
    IF user = NoUser \/ Len(arena.roasts) = 0 \/ arena.winnerRoastId = None THEN 0
    ELSE IF FindRoast(arena.roasts, arena.winnerRoastId) = 0 THEN 0
    ELSE LET winner == arena.roasts[FindRoast(arena.roasts, arena.winnerRoastId)]
             losingBackingPool == SumBacked(arena.roasts, 1, winner.id)
             winnerBackingPool == winner.backedStake
             backer == IF winner.myBackedAmount > 0 /\ winnerBackingPool > 0
                       THEN winner.myBackedAmount
                            + (9 * losingBackingPool * winner.myBackedAmount)
                                 \div (10 * winnerBackingPool)
                       ELSE 0
             roaster == IF winner.roasterId = user.id
                        THEN (7 * arena.stake) \div 10
                             + (7 * (Len(arena.roasts) - 1) * EntryFee) \div 10
                        ELSE 0
             op == IF arena.opId = user.id
                   THEN (losingBackingPool + winnerBackingPool) \div 20
                   ELSE 0
         IN  backer + roaster + op

\* The two views of the App on its arena copy.
liveArenas(as) == SelectSeq(as, LAMBDA a : a.status = "active")
deadArenas(as) == SelectSeq(as, LAMBDA a : a.status = "resolved")

\* The test of the state-update handler: the arena just resolved on the server.
JustResolvedFor(prev, arena) ==
    /\ FindArena(prev, arena.id) # 0
    /\ prev[FindArena(prev, arena.id)].status = "active"
    /\ arena.status = "resolved"

\* serverArenas.forEach(...): the payouts of one snapshot add up.
RECURSIVE Payouts(_, _, _, _)
Payouts(serverArenas, i, prev, user) ==
    IF i > Len(serverArenas) THEN 0
    ELSE (IF JustResolvedFor(prev, serverArenas[i])
          THEN Payout(serverArenas[i], user) ELSE 0)
         + Payouts(serverArenas, i + 1, prev, user)

\* socket.on('state-update')
OnStateUpdateKeepsCopy(serverArenas) ==
    /\ cArenas' = IF cArenas = <<>> THEN serverArenas ELSE cArenas
    /\ currentUser' =
          IF currentUser = NoUser THEN currentUser
          ELSE [currentUser EXCEPT !.balance =
                   @ + Payouts(serverArenas, 1, prevArenasRef, currentUser)]
    /\ prevArenasRef' = serverArenas
    /\ UNCHANGED activityFeed

OnStateUpdate(serverArenas) ==
    /\ cArenas' = serverArenas
    /\ currentUser' =
          IF currentUser = NoUser THEN currentUser
          ELSE [currentUser EXCEPT !.balance =
                   @ + Payouts(serverArenas, 1, prevArenasRef, currentUser)]
    /\ prevArenasRef' = serverArenas
    /\ UNCHANGED activityFeed

\* socket.on('activity-update')
OnActivityUpdate(log) ==
    /\ activityFeed' =
          IF \E n \in 1..Len(activityFeed) : activityFeed[n].id = log.id
          THEN activityFeed
          ELSE Slice(<<log>> \o activityFeed, FeedBound)
    /\ UNCHANGED <<currentUser, cArenas, prevArenasRef>>

\* The observer takes the next event off its socket.
ReceiveEvent ==
    /\ inbox # <<>>
    /\ inbox' = Tail(inbox)
    /\ IF Head(inbox).event = "state-update"
       THEN OnStateUpdate(Head(inbox).arenas)
       ELSE OnActivityUpdate(Head(inbox).log)
    /\ UNCHANGED <<outbox, staked, arenas, activityLog, now, emitted>>

\* handleLogin: the form is shown while there is no user.
HandleLogin ==
    /\ currentUser = NoUser
    /\ currentUser' = [id |-> Me, balance |-> Airdrop]
    /\ outbox' = Append(outbox, [cmd |-> "join", userHandle |-> Me])
    /\ UNCHANGED <<cArenas, prevArenasRef, activityFeed, inbox, staked,
                   arenas, activityLog, now, emitted>>

\* handleCreateArena without the test of the balance.
HandleCreateArenaUnfunded ==
    /\ currentUser # NoUser
    /\ currentUser' = [currentUser EXCEPT !.balance = @ - ArenaStake]
    /\ outbox' = Append(outbox, [cmd |-> "create-arena",
                                 arenaData |-> AppArenaData(currentUser.id)])
    /\ UNCHANGED <<cArenas, prevArenasRef, activityFeed, inbox, staked,
                   arenas, activityLog, now, emitted>>

\* handleCreateArena
HandleCreateArena ==
    /\ currentUser # NoUser
    /\ currentUser.balance >= ArenaStake
    /\ currentUser' = [currentUser EXCEPT !.balance = @ - ArenaStake]
    /\ outbox' = Append(outbox, [cmd |-> "create-arena",
                                 arenaData |-> AppArenaData(currentUser.id)])
    /\ UNCHANGED <<cArenas, prevArenasRef, activityFeed, inbox, staked,
                   arenas, activityLog, now, emitted>>

\* The arena view shows its buttons while the first arena of the observer's
\* copy with the chosen id is active.
ActiveArenaShown(arenaId) ==
    /\ FindArena(cArenas, arenaId) # 0
    /\ cArenas[FindArena(cArenas, arenaId)].status = "active"

MarkMyBacking(arena, arenaId, roastId, amount) ==
    IF arena.id # arenaId THEN arena
    ELSE [arena EXCEPT !.roasts =
            [j \in 1..Len(arena.roasts) |->
                IF arena.roasts[j].id = roastId
                THEN [arena.roasts[j] EXCEPT !.myBackedAmount = @ + amount]
                ELSE arena.roasts[j]]]

\* handleStakeOnRoast
HandleStakeOnRoast(arenaId, roastId) ==
    /\ ActiveArenaShown(arenaId)
    /\ FindRoast(cArenas[FindArena(cArenas, arenaId)].roasts, roastId) # 0
    /\ currentUser # NoUser
    /\ currentUser.balance >= StakeAmount
    /\ currentUser' = [currentUser EXCEPT !.balance = @ - StakeAmount]
    /\ cArenas' = [i \in 1..Len(cArenas) |->
                     MarkMyBacking(cArenas[i], arenaId, roastId, StakeAmount)]
    /\ outbox' = Append(outbox, [cmd |-> "stake-roast", arenaId |-> arenaId,
                                 roastId |-> roastId, amount |-> StakeAmount,
                                 userHandle |-> currentUser.id])
    /\ staked' = [staked EXCEPT ![<<arenaId, roastId>>] = @ + StakeAmount]
    /\ UNCHANGED <<prevArenasRef, activityFeed, inbox,
                   arenas, activityLog, now, emitted>>

\* handleSubmitRoast without the test of the balance.
HandleSubmitRoastUnfunded(arenaId, newId) ==
    /\ ActiveArenaShown(arenaId)
    /\ currentUser # NoUser
    /\ currentUser' = [currentUser EXCEPT !.balance = @ - EntryFee]
    /\ outbox' = Append(outbox, [cmd |-> "submit-roast", arenaId |-> arenaId,
                                 roastData |-> [id |-> newId,
                                                roasterId |-> currentUser.id,
                                                backedStake |-> 0,
                                                myBackedAmount |-> 0]])
    /\ UNCHANGED <<cArenas, prevArenasRef, activityFeed, inbox, staked,
                   arenas, activityLog, now, emitted>>

\* handleSubmitRoast: newId is Math.random().
HandleSubmitRoast(arenaId, newId) ==
    /\ ActiveArenaShown(arenaId)
    /\ currentUser # NoUser
    /\ currentUser.balance >= EntryFee
    /\ currentUser' = [currentUser EXCEPT !.balance = @ - EntryFee]
    /\ outbox' = Append(outbox, [cmd |-> "submit-roast", arenaId |-> arenaId,
                                 roastData |-> [id |-> newId,
                                                roasterId |-> currentUser.id,
                                                backedStake |-> 0,
                                                myBackedAmount |-> 0]])
    /\ UNCHANGED <<cArenas, prevArenasRef, activityFeed, inbox, staked,
                   arenas, activityLog, now, emitted>>

\* The server takes the observer's next command off the socket.
ServeObserver ==
    /\ outbox # <<>>
    /\ outbox' = Tail(outbox)
    /\ LET c == Head(outbox)
       IN  CASE c.cmd = "join" -> Join(c.userHandle)
             [] c.cmd = "create-arena" ->
                    /\ RoomForArena
                    /\ \E newId \in RandomId(ArenaIds, ArenaIdsUsed) :
                          CreateArena(c.arenaData, newId)
             [] c.cmd = "submit-roast" ->
                    /\ RoomForRoast(c.arenaId)
                    /\ SubmitRoast(c.arenaId, c.roastData)
             [] c.cmd = "stake-roast" ->
                    /\ RoomForStake(c.arenaId, c.roastId)
                    /\ StakeRoast(c.arenaId, c.roastId, c.amount, c.userHandle)

\* io.emit reaches the observer's socket in order.
Deliver == inbox' = inbox \o emitted'

\* The other observers use the same App: their payloads are the ones its
\* handlers build, and their commands name an arena, and for a stake an
\* entry, that the server has sent them.
CreateShown ==
    /\ RoomForArena
    /\ \E opId \in Others, newId \in RandomId(ArenaIds, ArenaIdsUsed) :
          CreateArena(AppArenaData(opId), newId)

SubmitShown ==
    \E arenaId \in ArenaIds, roastData \in AppRoastPayloads :
        /\ roastData.id \in RandomId(RoastIds, RoastIdsUsed)
        /\ HasArena(arenaId)
        /\ RoomForRoast(arenaId)
        /\ SubmitRoast(arenaId, roastData)

StakeShown ==
    \E arenaId \in ArenaIds, roastId \in RoastIds, userHandle \in Others :
        /\ HasRoast(arenaId, roastId)
        /\ RoomForStake(arenaId, roastId)
        /\ StakeRoast(arenaId, roastId, StakeAmount, userHandle)

\* The server with the observer on one socket and the others on theirs.  The
\* server runs its next handler once the observer has at most MaxInbox
\* events waiting.
Served(handler) ==
    /\ Len(inbox) <= MaxInbox
    /\ handler
    /\ Deliver
    /\ UNCHANGED <<currentUser, cArenas, prevArenasRef, activityFeed, staked>>

NextClient ==
    \/ (Clock /\ UNCHANGED clientVars)
    \/ Served(Tick /\ UNCHANGED outbox)
    \/ Served(LogCalls < MaxLogCalls /\ CreateShown /\ UNCHANGED outbox)
    \/ Served(LogCalls < MaxLogCalls /\ SubmitShown /\ UNCHANGED outbox)
    \/ Served(LogCalls < MaxLogCalls /\ StakeShown /\ UNCHANGED outbox)
    \/ Served(LogCalls < MaxLogCalls /\ ServeObserver)
    \/ (LogCalls + Len(outbox) < MaxLogCalls /\ HandleLogin)
    \/ (LogCalls + Len(outbox) < MaxLogCalls /\ HandleCreateArena)
    \/ (LogCalls + Len(outbox) < MaxLogCalls
        /\ \E arenaId \in ArenaIds, roastId \in RoastIds :
              HandleStakeOnRoast(arenaId, roastId))
    \/ (LogCalls + Len(outbox) < MaxLogCalls
        /\ \E arenaId \in ArenaIds, newId \in RandomId(RoastIds, RoastIdsUsed) :
              HandleSubmitRoast(arenaId, newId))
    \/ ReceiveEvent

SpecClient == Init /\ [][NextClient]_vars

\* The arena copy of the observer: the server with the others on their
\* sockets, and of the observer the handlers that write to its arena copy
\* (the state-update handler and handleStakeOnRoast) after its login.
NextSync ==
    \/ (Clock /\ UNCHANGED clientVars)
    \/ Served(Tick /\ UNCHANGED outbox)
    \/ Served(LogCalls < MaxLogCalls /\ CreateShown /\ UNCHANGED outbox)
    \/ Served(LogCalls < MaxLogCalls /\ SubmitShown /\ UNCHANGED outbox)
    \/ Served(LogCalls < MaxLogCalls /\ StakeShown /\ UNCHANGED outbox)
    \/ Served(LogCalls < MaxLogCalls /\ ServeObserver)
    \/ (LogCalls + Len(outbox) < MaxLogCalls /\ HandleLogin)
    \/ (LogCalls + Len(outbox) < MaxLogCalls
        /\ \E arenaId \in ArenaIds, roastId \in RoastIds :
              HandleStakeOnRoast(arenaId, roastId))
    \/ ReceiveEvent

SpecSync == Init /\ [][NextSync]_vars

\* The server driven by sockets that all run the App.
NextApp ==
    \/ (Clock /\ UNCHANGED clientVars)
    \/ (Tick /\ UNCHANGED clientVars)
    \/ (LogCalls < MaxLogCalls /\ JoinCmd /\ UNCHANGED clientVars)
    \/ (LogCalls < MaxLogCalls /\ CreateShown /\ UNCHANGED clientVars)
    \/ (LogCalls < MaxLogCalls /\ SubmitShown /\ UNCHANGED clientVars)
    \/ (LogCalls < MaxLogCalls /\ StakeShown /\ UNCHANGED clientVars)

SpecApp == Init /\ [][NextApp]_vars

\* The same, where the interval of the tick never stops and time goes on.
SpecLive ==
    /\ Init /\ [][NextApp]_vars
    /\ WF_vars(Tick /\ UNCHANGED clientVars)
    /\ WF_vars(Clock /\ UNCHANGED clientVars)

----
\* Resolution seen by the observer.  The run starts where one arena waits for
\* its deadline: Me has logged in, the originator (Me or another user) has
\* created the arena, up to MaxRoasts entries were submitted by Me or by
\* others, every entry was backed up to MaxBacked times, by Me or by others,
\* and every event has reached the observer.  Then time passes, the tick
\* resolves the arena and the observer handles the events of the tick.
Users == {Me} \cup Others
Backings == {k * StakeAmount : k \in 0..MaxBacked}

\* What is drawn for one entry: its author, its backedStake and the part of
\* it that Me has staked.
RoastDraws ==
    {d \in [roasterId : Users, backedStake : Backings, mine : Backings] :
        d.mine <= d.backedStake}

RoastIdAt(j) == SelectSeq(IdOrder, LAMBDA id : id \in RoastIds)[j]

MaxDrawn == IF MaxRoasts < Cardinality(RoastIds) THEN MaxRoasts ELSE Cardinality(RoastIds)

DrawnArena(opId, draws) ==
    [NewArena(AppArenaData(opId), "a1", 0) EXCEPT !.roasts =
        [j \in 1..Len(draws) |->
            [id |-> RoastIdAt(j), roasterId |-> draws[j].roasterId,
             backedStake |-> draws[j].backedStake, myBackedAmount |-> 0]]]

\* The messages the handlers have logged on the way: one per command.
RECURSIVE StakeMessages(_, _)
StakeMessages(draws, j) ==
    IF j > Len(draws) THEN <<>>
    ELSE [n \in 1..(draws[j].mine \div StakeAmount) |->
             [kind |-> "staked", who |-> Me]]
         \o [n \in 1..((draws[j].backedStake - draws[j].mine) \div StakeAmount) |->
                [kind |-> "staked", who |-> CHOOSE u \in Others : TRUE]]
         \o StakeMessages(draws, j + 1)

DrawnMessages(opId, draws) ==
    <<[kind |-> "joined", who |-> Me], [kind |-> "dropped", who |-> opId]>>
    \o [j \in 1..Len(draws) |-> [kind |-> "entered", who |-> draws[j].roasterId]]
    \o StakeMessages(draws, 1)

RECURSIVE LogMessages(_, _)
LogMessages(log, msgs) ==
    IF msgs = <<>> THEN log
    ELSE LogMessages(logActivity(log, Head(msgs)), Tail(msgs))

\* What Me has paid on the way: handleCreateArena, handleSubmitRoast and
\* handleStakeOnRoast take it off the balance.
RECURSIVE DrawnSpent(_, _)
DrawnSpent(draws, j) ==
    IF j > Len(draws) THEN 0
    ELSE (IF draws[j].roasterId = Me THEN EntryFee ELSE 0) + draws[j].mine
         + DrawnSpent(draws, j + 1)

InitPayout ==
    \E opId \in Users, n \in 0..MaxDrawn :
       \E draws \in [1..n -> RoastDraws] :
          /\ arenas = <<DrawnArena(opId, draws)>>
          /\ activityLog = LogMessages(<<>>, DrawnMessages(opId, draws))
          /\ now = 0
          /\ emitted = <<>>
          /\ currentUser =
                [id |-> Me,
                 balance |-> Airdrop - (IF opId = Me THEN ArenaStake ELSE 0)
                                - DrawnSpent(draws, 1)]
          /\ cArenas = arenas
          /\ prevArenasRef = arenas
          /\ activityFeed = Slice(activityLog, FeedBound)
          /\ inbox = <<>>
          /\ outbox = <<>>
          /\ staked = [key \in ArenaIds \X RoastIds |->
                         IF key[1] = "a1"
                            /\ \E j \in 1..n : RoastIdAt(j) = key[2]
                         THEN draws[CHOOSE j \in 1..n : RoastIdAt(j) = key[2]].mine
                         ELSE 0]

NextPayout ==
    \/ (Clock /\ UNCHANGED clientVars)
    \/ Served(Tick /\ UNCHANGED outbox)
    \/ ReceiveEvent

SpecPayout == InitPayout /\ [][NextPayout]_vars

\* The wallet: the observer's user has spent the airdrop, or all of it but
\* the price of MaxBacked stakes, on one arena: the user or another one has
\* created it and written its entry, and the user has staked the rest on that
\* entry.  Every event has reached the observer.  From there the user creates
\* arenas, submits entries and stakes, one command at a time, while the
\* balance covers it, and is paid when an arena resolves.
\* The log after logActivity has been called for each of the messages: the
\* LogBound newest entries, the newest first.
Logged(msgs) ==
    [i \in 1..(IF Len(msgs) < LogBound THEN Len(msgs) ELSE LogBound) |->
        [id |-> Len(msgs) - i + 1, message |-> msgs[Len(msgs) - i + 1]]]

InitWallet ==
    \E opId \in Users, author \in Users,
       n \in (Airdrop \div StakeAmount - MaxBacked)..(Airdrop \div StakeAmount) :
       LET draws == <<[roasterId |-> author, backedStake |-> n * StakeAmount,
                       mine |-> n * StakeAmount]>>
           spent == (IF opId = Me THEN ArenaStake ELSE 0) + DrawnSpent(draws, 1)
       IN  /\ spent <= Airdrop
           /\ arenas = <<DrawnArena(opId, draws)>>
           /\ activityLog = Logged(DrawnMessages(opId, draws))
           /\ now = 0
           /\ emitted = <<>>
           /\ currentUser = [id |-> Me, balance |-> Airdrop - spent]
           /\ cArenas = arenas
           /\ prevArenasRef = arenas
           /\ activityFeed = Slice(activityLog, FeedBound)
           /\ inbox = <<>>
           /\ outbox = <<>>
           /\ staked = [key \in ArenaIds \X RoastIds |->
                          IF key = <<"a1", RoastIdAt(1)>> THEN n * StakeAmount
                          ELSE 0]

\* The calls of logActivity since the drawn state: the log had been written
\* for the join, the arena, its entry and each of the user's stakes on it.
WalletCalls == LogCalls - (3 + staked[<<"a1", RoastIdAt(1)>>] \div StakeAmount)

NextWallet ==
    \/ (Clock /\ UNCHANGED clientVars)
    \/ Served(WalletCalls < MaxLogCalls /\ Tick /\ UNCHANGED outbox)
    \/ Served(ServeObserver)
    \/ (outbox = <<>> /\ WalletCalls < MaxLogCalls
        /\ RoomForArena /\ HandleCreateArena)
    \/ (outbox = <<>> /\ WalletCalls < MaxLogCalls
        /\ \E arenaId \in ArenaIds, roastId \in RoastIds :
              /\ RoomForStake(arenaId, roastId)
              /\ HandleStakeOnRoast(arenaId, roastId))
    \/ (outbox = <<>> /\ WalletCalls < MaxLogCalls
        /\ \E arenaId \in ArenaIds, newId \in RandomId(RoastIds, RoastIdsUsed) :
              /\ RoomForRoast(arenaId)
              /\ HandleSubmitRoast(arenaId, newId))
    \/ ReceiveEvent

SpecWallet == InitWallet /\ [][NextWallet]_vars

\* The Activity Log and the connections: sockets connect, join and create
\* arenas until the log has been written MaxJoins times.
NextLog ==
    \/ (LogCalls < MaxJoins /\ JoinCmd /\ UNCHANGED clientVars)
    \/ (LogCalls < MaxJoins /\ CreateShown /\ UNCHANGED clientVars)
    \/ (Connect /\ UNCHANGED clientVars)

SpecLog == Init /\ [][NextLog]_vars

\* The observer's feed: the server has handled n joins when the observer's
\* socket connects; the snapshot and the backlog are on their way to it, and
\* sockets keep joining and creating arenas while it reads them.
JoinedLog(n) ==
    LET RECURSIVE After(_)
        After(k) == IF k = 0 THEN <<>>
                    ELSE logActivity(After(k - 1),
                                     [kind |-> "joined", who |-> "u2"])
    IN  After(n)

InitFeed ==
    \E n \in 0..MaxJoins :
       /\ arenas = <<>>
       /\ activityLog = JoinedLog(n)
       /\ now = 0
       /\ emitted = OnConnection(arenas, activityLog)
       /\ currentUser = NoUser
       /\ cArenas = <<>>
       /\ prevArenasRef = <<>>
       /\ activityFeed = <<>>
       /\ inbox = emitted
       /\ outbox = <<>>
       /\ staked = [key \in ArenaIds \X RoastIds |-> 0]

Sent(handler) ==
    /\ LogCalls < MaxJoins
    /\ handler
    /\ Deliver
    /\ UNCHANGED <<currentUser, cArenas, prevArenasRef, activityFeed, outbox,
                   staked>>

NextFeed ==
    \/ Sent(JoinCmd)
    \/ Sent(CreateShown)
    \/ ReceiveEvent

SpecFeed == InitFeed /\ [][NextFeed]_vars

----
\* Vocabulary of the properties.
Resolved(arena) == arena.status = "resolved"

\* Entry j has the greatest backedStake and is the first to have it.
IsFirstMax(roasts, j) ==
    /\ \A m \in 1..Len(roasts) : roasts[m].backedStake <= roasts[j].backedStake
    /\ \A m \in 1..(j - 1) : roasts[m].backedStake < roasts[j].backedStake

\* The last server handler was a tick that resolved an arena.
JustResolved ==
    /\ emitted # <<>>
    /\ emitted[1].event = "activity-update"
    /\ emitted[1].log.message.kind \in {"closed", "won"}

\* The last server handler was the command of the given kind.
JustHandled(kind) ==
    /\ emitted # <<>>
    /\ emitted[1].event = "activity-update"
    /\ emitted[1].log.message.kind = kind

Broadcasts(msgs) ==
    {m \in 1..Len(msgs) : msgs[m].event = "state-update" /\ msgs[m].to = "all"}

\* Log entries created by the step, of the given kinds.
NewLogsOfKind(kinds) ==
    {n \in 1..Len(activityLog') :
        /\ activityLog'[n].id > LogCalls
        /\ activityLog'[n].message.kind \in kinds}

----
\* C1: a submit-roast against a Resolved arena is rejected: no step appends
\* an entry to an arena that is Resolved.
C1_NoEntryOnResolved ==
    [][\A k \in 1..Len(arenas) :
          Resolved(FromEnd(arenas, k))
             => Len(FromEnd(arenas', k).roasts) = Len(FromEnd(arenas, k).roasts)]_vars

\* C2: a stake-roast against an entry of a Resolved arena is rejected: the
\* backedStake of every entry of a Resolved arena keeps the value it had.
C2_NoBackingOnResolved ==
    [][\A k \in 1..Len(arenas) :
          Resolved(FromEnd(arenas, k))
             => \A j \in 1..Len(FromEnd(arenas, k).roasts) :
                   FromEnd(arenas', k).roasts[j].backedStake
                      = FromEnd(arenas, k).roasts[j].backedStake]_vars

\* C3: every Resolved arena with at least one entry has a winnerRoastId, the
\* id of the first of its entries with the greatest backedStake.
C3_WinnerIsMaximal ==
    \A i \in 1..Len(arenas) :
        (Resolved(arenas[i]) /\ Len(arenas[i].roasts) >= 1)
           => \E j \in 1..Len(arenas[i].roasts) :
                 /\ IsFirstMax(arenas[i].roasts, j)
                 /\ arenas[i].winnerRoastId = arenas[i].roasts[j].id

\* C4: when a step resolves an arena that has entries, the winner recorded is
\* the first entry with the greatest backedStake at that moment; the entries
\* alone determine it.
C4_TickPicksFirstMax ==
    [][\A k \in 1..Len(arenas) :
          (/\ ~Resolved(FromEnd(arenas, k))
           /\ Resolved(FromEnd(arenas', k))
           /\ Len(FromEnd(arenas, k).roasts) >= 1)
             => \A j \in 1..Len(FromEnd(arenas, k).roasts) :
                   IsFirstMax(FromEnd(arenas, k).roasts, j)
                      => /\ FromEnd(arenas', k).winnerRoastId
                              = FromEnd(arenas, k).roasts[j].id
                         /\ FromEnd(arenas', k).roasts = FromEnd(arenas, k).roasts]_vars

\* C4 witness: a tick has just resolved an arena whose two entries, with
\* different ids, were tied (here at 0), and the first one is the winner.
C4_Witness ==
    /\ JustResolved
    /\ \E i \in 1..Len(arenas) :
          /\ Resolved(arenas[i])
          /\ Len(arenas[i].roasts) = 2
          /\ arenas[i].roasts[1].id # arenas[i].roasts[2].id
          /\ arenas[i].roasts[1].backedStake = arenas[i].roasts[2].backedStake
          /\ arenas[i].winnerRoastId = arenas[i].roasts[1].id

\* C5: status is monotonic: an arena that is Resolved is Resolved after
\* every step.
C5_StatusMonotonic ==
    [][\A k \in 1..Len(arenas) :
          Resolved(FromEnd(arenas, k)) => Resolved(FromEnd(arenas', k))]_vars

\* C5 witness: a command was handled while a Resolved arena was in the store.
C5_Witness ==
    /\ \E i \in 1..Len(arenas) : Resolved(arenas[i])
    /\ JustHandled("entered") \/ JustHandled("staked") \/ JustHandled("dropped")

\* C6: an arena is resolved at most once: no step takes a Resolved arena back
\* to Active, a tick leaves every arena it finds Resolved as it is, and the
\* resolution entries a step logs are one for each arena it resolves.
C6_ResolvedAtMostOnce ==
    [][/\ \A k \in 1..Len(arenas) :
             Resolved(FromEnd(arenas, k)) => FromEnd(arenas', k).status # "active"
       /\ Tick => \A i \in 1..Len(arenas) :
                     Resolved(arenas[i]) => arenas'[i] = arenas[i]
       /\ Cardinality(NewLogsOfKind({"closed", "won"}))
             = Cardinality({k \in 1..Len(arenas) :
                              /\ ~Resolved(FromEnd(arenas, k))
                              /\ Resolved(FromEnd(arenas', k))})]_vars

\* C6 witness: a tick ran after the deadline of an arena that was already
\* Resolved and had nothing to do.
C6_Witness ==
    /\ emitted = <<>>
    /\ \E i \in 1..Len(arenas) : Resolved(arenas[i])

\* C7: an arena becomes Resolved only in a tick at a time now >= its
\* deadline, a new arena is Active, and no other step changes a status.
C7_ResolvedOnlyByDueTick ==
    /\ [](\A i \in 1..Len(arenas) : Resolved(arenas[i]) => arenas[i].endTime <= now)
    /\ [][/\ \A k \in 1..Len(arenas) :
                FromEnd(arenas', k).status # FromEnd(arenas, k).status
                   => /\ Tick
                      /\ FromEnd(arenas, k).endTime <= now
                      /\ Resolved(FromEnd(arenas', k))
          /\ \A k \in (Len(arenas) + 1)..Len(arenas') :
                ~Resolved(FromEnd(arenas', k))]_vars

\* C7 witness: a tick has just resolved an arena exactly at its deadline
\* while a later arena stays Active.
C7_Witness ==
    /\ JustResolved
    /\ \E i \in 1..Len(arenas) : Resolved(arenas[i]) /\ arenas[i].endTime = now
    /\ \E i \in 1..Len(arenas) : ~Resolved(arenas[i]) /\ arenas[i].endTime > now

\* The observer is about to handle a state-update and has a user.
HandlesSnapshot ==
    /\ inbox # <<>>
    /\ Head(inbox).event = "state-update"
    /\ inbox' = Tail(inbox)
    /\ currentUser # NoUser

\* The share of spec 4.2 for a backer who put c on the winner:
\* c + (c / W) * 0.9 * L.
BackerShare(c, W, L) == c + (9 * L * c) \div (10 * W)

\* C8: when the observer learns that an arena resolved with winning pool
\* W > 0, and its user has backed the winner with c > 0, the balance goes up
\* by at least the backer share c + (c / W) * 0.9 * L.  Nothing else is in
\* flight, so the snapshot is the store and every stake of the user was
\* applied by the server before the arena resolved.
C8_BackerIsPaid ==
    [][(HandlesSnapshot /\ Len(inbox) = 1 /\ outbox = <<>>) =>
          \A i \in 1..Len(Head(inbox).arenas) :
             LET arena == Head(inbox).arenas[i]
                 w == FindRoast(arena.roasts, arena.winnerRoastId)
             IN  (/\ JustResolvedFor(prevArenasRef, arena)
                  /\ w # 0
                  /\ arena.roasts[w].backedStake > 0
                  /\ staked[<<arena.id, arena.roasts[w].id>>] > 0
                  /\ staked[<<arena.id, arena.roasts[w].id>>]
                        <= arena.roasts[w].backedStake)
                    => currentUser'.balance - currentUser.balance
                          >= BackerShare(staked[<<arena.id, arena.roasts[w].id>>],
                                         arena.roasts[w].backedStake,
                                         SumBacked(arena.roasts, 1, arena.roasts[w].id))]_vars

\* C9: the contribution recorded for the user on an entry (myBackedAmount in
\* the observer's copy, the only place that records it) is the sum of the
\* amounts the user has staked on that entry, in every state.
C9_AttributionRetained ==
    \A i \in 1..Len(cArenas) : \A j \in 1..Len(cArenas[i].roasts) :
        (/\ \A m \in 1..Len(cArenas) : cArenas[m].id = cArenas[i].id => m = i
         /\ \A m \in 1..Len(cArenas[i].roasts) :
               cArenas[i].roasts[m].id = cArenas[i].roasts[j].id => m = j)
           => cArenas[i].roasts[j].myBackedAmount
                 = staked[<<cArenas[i].id, cArenas[i].roasts[j].id>>]

\* C10: a submit-roast or stake-roast that names an unknown arena, or a
\* stake-roast that names an unknown entry, broadcasts no state-update.
C10_NoBroadcastOnFailure ==
    [][/\ \A arenaId \in ArenaIds, roastData \in RoastPayloads :
             (SubmitRoast(arenaId, roastData) /\ ~HasArena(arenaId))
                => Broadcasts(emitted') = {}
       /\ \A arenaId \in ArenaIds, roastId \in RoastIds, userHandle \in Others :
             (StakeRoast(arenaId, roastId, StakeAmount, userHandle)
                /\ ~HasRoast(arenaId, roastId))
                => Broadcasts(emitted') = {}]_vars

----
\* C11: a command that fails leaves the arena collection as it was: a
\* submit-roast or stake-roast that names an unknown arena, and a stake-roast
\* that names an unknown entry, change no arena, no entry and no order.
C11_FailedCommandKeepsStore ==
    [][/\ \A arenaId \in ArenaIds, roastData \in RoastPayloads :
             (~HasArena(arenaId) /\ SubmitRoast(arenaId, roastData))
                => arenas' = arenas
       /\ \A arenaId \in ArenaIds, roastId \in RoastIds, amount \in StakeAmounts,
             userHandle \in Others :
             (~HasRoast(arenaId, roastId)
                /\ StakeRoast(arenaId, roastId, amount, userHandle))
                => arenas' = arenas]_vars

\* C11 witness: a stake-roast was just handled on a store whose only arena
\* has no entry: whatever it named, it failed.
C11_Witness ==
    /\ JustHandled("staked")
    /\ Len(arenas) = 1
    /\ arenas[1].roasts = <<>>

\* C12: the Activity Log holds at most 15 entries, newest first: every
\* logActivity call puts the new entry at index 1 and keeps the others in
\* their order, and it drops an entry only from a log of 15, and then only
\* the oldest one.
C12_LogBoundedNewestFirst ==
    /\ [](/\ Len(activityLog) <= LogBound
          /\ \A n \in 1..(Len(activityLog) - 1) :
                activityLog[n].id > activityLog[n + 1].id)
    /\ [][activityLog' # activityLog =>
             /\ activityLog'[1].id = LogCalls + 1
             /\ Tail(activityLog')
                   = IF Len(activityLog) < LogBound THEN activityLog
                     ELSE SubSeq(activityLog, 1, LogBound - 1)]_vars

\* C12 witness: the log is full and its oldest entry is not the first one
\* ever written: an entry has been evicted.
C12_Witness ==
    /\ Len(activityLog) = LogBound
    /\ activityLog[LogBound].id > 1

\* C13: create-arena, whatever its payload carries, puts exactly one arena
\* in front of the store, with the id the server drew, status active, no
\* entries, the fixed stake and the deadline now + 5 minutes, and leaves the
\* arenas already there as they were.
C13_CreateAddsOneFreshArena ==
    [][\A arenaData \in CreatePayloads, newId \in ArenaIds :
          CreateArena(arenaData, newId)
             => /\ Len(arenas') = Len(arenas) + 1
                /\ arenas'[1].id = newId
                /\ arenas'[1].status = "active"
                /\ arenas'[1].roasts = <<>>
                /\ arenas'[1].stake = ArenaStake
                /\ arenas'[1].endTime = now + ArenaDuration
                /\ SubSeq(arenas', 2, Len(arenas')) = arenas]_vars

\* C13 witness: a create-arena whose payload carried fields of its own (the
\* forged winnerRoastId came through) was just handled on a store that had
\* an arena, which is still there with its entry.
C13_Witness ==
    /\ JustHandled("dropped")
    /\ Len(arenas) = 2
    /\ arenas[1].winnerRoastId # None
    /\ arenas[1].status = "active"
    /\ arenas[1].roasts = <<>>
    /\ Len(arenas[2].roasts) = 1

C15_StakeRaisesOneEntry ==
    [][\A arenaId \in ArenaIds, roastId \in RoastIds, amount \in StakeAmounts,
          userHandle \in Others :
          StakeRoast(arenaId, roastId, amount, userHandle)
             => \A i \in 1..Len(arenas) :
                   (arenas[i].id = arenaId /\ ~Resolved(arenas[i])
                    /\ FindRoast(arenas[i].roasts, roastId) # 0)
                      => /\ arenas'[i].roasts
                               = [arenas[i].roasts EXCEPT
                                    ![FindRoast(arenas[i].roasts, roastId)].backedStake
                                       = @ + amount]
                         /\ arenas'[i]
                               = [arenas[i] EXCEPT !.roasts = arenas'[i].roasts]]_vars

\* C16: the backedStake of an entry is 0 when the entry comes into the store,
\* never goes down, and goes up only while the arena of the entry is Active,
\* in every step and whatever the payloads carry.
C16_BackedTotalOnlyGrows ==
    [][\A k \in 1..Len(arenas) :
          /\ \A j \in 1..Len(FromEnd(arenas, k).roasts) :
                /\ FromEnd(arenas', k).roasts[j].backedStake
                      >= FromEnd(arenas, k).roasts[j].backedStake
                /\ FromEnd(arenas', k).roasts[j].backedStake
                      > FromEnd(arenas, k).roasts[j].backedStake
                      => ~Resolved(FromEnd(arenas, k))
          /\ \A j \in (Len(FromEnd(arenas, k).roasts) + 1)..Len(FromEnd(arenas', k).roasts) :
                FromEnd(arenas', k).roasts[j].backedStake = 0]_vars

\* C17: the id, the originator, the stake and the deadline of an arena never
\* change: every step leaves them, for every arena of the store, as they are.
C17_ArenaFieldsImmutable ==
    [][\A k \in 1..Len(arenas) :
          /\ FromEnd(arenas', k).id = FromEnd(arenas, k).id
          /\ FromEnd(arenas', k).opId = FromEnd(arenas, k).opId
          /\ FromEnd(arenas', k).stake = FromEnd(arenas, k).stake
          /\ FromEnd(arenas', k).endTime = FromEnd(arenas, k).endTime]_vars

\* C17 witness: an arena that received an entry and a stake has been
\* resolved, and another arena was created after it.
C17_Witness ==
    /\ Len(arenas) = 2
    /\ Resolved(arenas[2])
    /\ Len(arenas[2].roasts) = 1
    /\ arenas[2].roasts[1].backedStake > 0
    /\ arenas[2].endTime < arenas[1].endTime

\* C18: winnerRoastId is set only by a resolution that finds an entry: it is
\* absent on every Active arena and on every Resolved arena without entries
\* (entries are never removed, so such an arena had none when it resolved),
\* whatever the create-arena payload carried.
C18_WinnerSetOnlyOnResolution ==
    \A i \in 1..Len(arenas) :
        (~Resolved(arenas[i]) \/ arenas[i].roasts = <<>>)
           => arenas[i].winnerRoastId = None

\* C19: a tick that resolves at least one arena emits exactly one
\* state-update to all, as its last message, and the snapshot is the store
\* with every one of these arenas Resolved; a tick that resolves none emits
\* no state-update and leaves the arenas as they were.
C19_TickBroadcastsOnce ==
    [][Tick =>
          LET resolved == {i \in 1..Len(arenas) :
                             ~Resolved(arenas[i]) /\ Resolved(arenas'[i])}
          IN  IF resolved # {}
              THEN /\ Broadcasts(emitted') = {Len(emitted')}
                   /\ emitted'[Len(emitted')].arenas = arenas'
                   /\ \A i \in resolved :
                         Resolved(emitted'[Len(emitted')].arenas[i])
              ELSE /\ Broadcasts(emitted') = {}
                   /\ arenas' = arenas]_vars

\* C19 witness: one tick has just resolved two arenas: two activity entries
\* and then one snapshot went out.
C19_Witness ==
    /\ JustResolved
    /\ Len(emitted) = 3
    /\ emitted[2].event = "activity-update"
    /\ emitted[3].event = "state-update"
    /\ Len(emitted[3].arenas) = 2
    /\ \A i \in 1..2 : Resolved(emitted[3].arenas[i])

\* C20: every step that changes the arenas writes the log: a tick that
\* resolves k arenas writes k entries, one for each, with or without
\* entries, and a create-arena, submit-roast or stake-roast that changes the
\* arenas writes exactly one.
C20_OneLogEntryPerMutation ==
    [][arenas' # arenas =>
          LET resolved == {k \in 1..Len(arenas) :
                             /\ ~Resolved(FromEnd(arenas, k))
                             /\ Resolved(FromEnd(arenas', k))}
              written == {n \in 1..Len(activityLog') : activityLog'[n].id > LogCalls}
          IN  /\ Cardinality(written)
                    = IF resolved # {} THEN Cardinality(resolved) ELSE 1
              /\ \A n \in written : n <= Cardinality(written)
              /\ SubSeq(activityLog', Cardinality(written) + 1, Len(activityLog'))
                    = activityLog]_vars

\* C20 witness: one tick has just resolved an arena with an entry and an
\* arena without, and has logged both.
C20_Witness ==
    /\ Len(emitted) = 3
    /\ emitted[1].event = "activity-update"
    /\ emitted[2].event = "activity-update"
    /\ {emitted[1].log.message.kind, emitted[2].log.message.kind} = {"closed", "won"}
    /\ Len(activityLog) >= 2
    /\ activityLog[1] = emitted[2].log
    /\ activityLog[2] = emitted[1].log

----
\* C22: a socket that connects is sent the arena collection first, and after
\* it the min(10, length) newest entries of the log, newest first, and no
\* older entry.
C22_ConnectSendsSnapshotThenBacklog ==
    [][Connect =>
          LET replayed == IF Len(activityLog) < BacklogReplay
                          THEN Len(activityLog) ELSE BacklogReplay
          IN  /\ emitted'[1].event = "state-update"
              /\ emitted'[1].to = "socket"
              /\ emitted'[1].arenas = arenas
              /\ Len(emitted') = 1 + replayed
              /\ \A n \in 1..replayed :
                    /\ emitted'[n + 1].event = "activity-update"
                    /\ emitted'[n + 1].to = "socket"
                    /\ emitted'[n + 1].log = activityLog[n]
                    /\ \A m \in (replayed + 1)..Len(activityLog) :
                          emitted'[n + 1].log.id > activityLog[m].id]_vars

\* C22 witness: a socket has just connected to a server that has an arena and
\* more than 10 log entries: it was sent the snapshot and 10 entries.
C22_Witness ==
    /\ Len(emitted) = 1 + BacklogReplay
    /\ emitted[1].to = "socket"
    /\ Len(emitted[1].arenas) >= 1
    /\ Len(activityLog) > BacklogReplay

\* C27: right after a tick no arena is Active with its deadline at or before
\* now: the tick resolves all the expired arenas at once; and while ticks go
\* on every arena of the store is Resolved in the end.
C27_ExpiredArenasGetResolved ==
    /\ [][Tick => \A i \in 1..Len(arenas') :
                     ~(arenas'[i].status = "active" /\ arenas'[i].endTime <= now)]_vars
    /\ \A k \in 1..MaxArenas :
          (Len(arenas) >= k) ~> (Len(arenas) >= k /\ Resolved(FromEnd(arenas, k)))

\* C27 witness: one tick has just resolved two arenas, and no arena of the
\* store is Active any more.
C27_Witness ==
    /\ JustResolved
    /\ Len(emitted) = 3
    /\ Len(arenas) = 2
    /\ \A i \in 1..Len(arenas) : Resolved(arenas[i]) /\ arenas[i].endTime <= now

\* C28: a submit-roast or a stake-roast that names arena X, in the store or
\* not, leaves every arena with another id as it was, and the tick changes
\* only the arenas that are Active with their deadline at or before now.
C28_OnlyNamedArenaChanges ==
    [][/\ \A arenaId \in ArenaIds, roastData \in RoastPayloads :
             SubmitRoast(arenaId, roastData)
                => /\ Len(arenas') = Len(arenas)
                   /\ \A i \in 1..Len(arenas) :
                         arenas[i].id # arenaId => arenas'[i] = arenas[i]
       /\ \A arenaId \in ArenaIds, roastId \in RoastIds, amount \in StakeAmounts,
             userHandle \in Others :
             StakeRoast(arenaId, roastId, amount, userHandle)
                => /\ Len(arenas') = Len(arenas)
                   /\ \A i \in 1..Len(arenas) :
                         arenas[i].id # arenaId => arenas'[i] = arenas[i]
       /\ Tick
             => /\ Len(arenas') = Len(arenas)
                /\ \A i \in 1..Len(arenas) :
                      ~(arenas[i].status = "active" /\ arenas[i].endTime <= now)
                         => arenas'[i] = arenas[i]]_vars

\* C28 witness: an entry has just been appended to one of two arenas with
\* different ids, and the other arena has no entry.
C28_Witness ==
    /\ JustHandled("entered")
    /\ Len(arenas) = 2
    /\ arenas[1].id # arenas[2].id
    /\ Len(arenas[1].roasts) + Len(arenas[2].roasts) = 1

\* The commands on entries: a submit-roast or a stake-roast with its payload.
EntryCommands ==
    [type : {"submit-roast"}, arenaId : ArenaIds, roastData : RoastPayloads,
     roastId : {None}, amount : {0}]
       \cup [type : {"stake-roast"}, arenaId : ArenaIds, roastData : {None},
              roastId : RoastIds, amount : StakeAmounts]

\* The arena collection after the handler of the command has run on it.
AfterCommand(as, cmd) ==
    IF cmd.type = "submit-roast"
    THEN AfterSubmit(as, cmd.arenaId, cmd.roastData)
    ELSE AfterStake(as, cmd.arenaId, cmd.roastId, cmd.amount)

\* C29: two commands on entries that name different arenas give the same
\* arena collection in either order, from every store the server can be in;
\* and every handler runs as a whole: the snapshot it broadcasts is the
\* arena collection it leaves.
C29_CommandsOnDifferentArenasCommute ==
    /\ [](\A c1 \in EntryCommands, c2 \in EntryCommands :
            c1.arenaId # c2.arenaId
               => AfterCommand(AfterCommand(arenas, c1), c2)
                     = AfterCommand(AfterCommand(arenas, c2), c1))
    /\ [][\A m \in Broadcasts(emitted') : emitted'[m].arenas = arenas']_vars

\* C29 witness: two arenas with different ids have one entry each, so that
\* commands on the two of them have acted on the store.
C29_Witness ==
    /\ JustHandled("entered")
    /\ Len(arenas) = 2
    /\ arenas[1].id # arenas[2].id
    /\ Len(arenas[1].roasts) = 1
    /\ Len(arenas[2].roasts) = 1

\* C30: ids are unique: no two arenas of the store have the same id, and no
\* two entries of one arena have the same id.
C30_IdsUnique ==
    /\ \A i, j \in 1..Len(arenas) : arenas[i].id = arenas[j].id => i = j
    /\ \A i \in 1..Len(arenas) :
          \A j, k \in 1..Len(arenas[i].roasts) :
             arenas[i].roasts[j].id = arenas[i].roasts[k].id => j = k

----
\* The rewards of spec 4.2 for one resolution, in the units of the model.
\* The entrant reward: 0.7 * originatorStake + 0.7 * (entryCount - 1) * entryStake.
EntrantReward(arena) ==
    (7 * ArenaStake) \div 10 + (7 * (Len(arena.roasts) - 1) * EntryFee) \div 10

\* The originator reward: 0.05 * (L + W), the twentieth of all that was backed.
OriginatorReward(arena) == SumBacked(arena.roasts, 1, None) \div 20

WinnerOf(arena) == arena.roasts[FindRoast(arena.roasts, arena.winnerRoastId)]

\* What the user of the observer has staked on the winner of the arena.
MyStakeOnWinner(arena) == staked[<<arena.id, arena.winnerRoastId>>]

\* The observer handles the snapshot that tells it that arena i, and no
\* other arena, resolved with a winner.
SeesResolution(i) ==
    /\ HandlesSnapshot
    /\ i \in 1..Len(Head(inbox).arenas)
    /\ \A m \in 1..Len(Head(inbox).arenas) :
          JustResolvedFor(prevArenasRef, Head(inbox).arenas[m]) <=> m = i
    /\ FindRoast(Head(inbox).arenas[i].roasts, Head(inbox).arenas[i].winnerRoastId) # 0

Credit == currentUser'.balance - currentUser.balance

\* C23: when the observer learns that an arena resolved with a winner, the
\* user who wrote the winning entry is credited the entrant reward
\* 0.7 * originatorStake + 0.7 * (entryCount - 1) * entryStake; a user who
\* is not the originator and has nothing on the winner is credited exactly
\* that as the author of the winner, and nothing otherwise, also when the
\* user wrote an entry that lost.
C23_WinningAuthorIsPaid ==
    [][\A i \in 1..MaxArenas :
          (SeesResolution(i) /\ Head(inbox).arenas[i].opId # currentUser.id)
             => LET arena == Head(inbox).arenas[i]
                IN  /\ WinnerOf(arena).roasterId = currentUser.id
                          => Credit >= EntrantReward(arena)
                    /\ MyStakeOnWinner(arena) = 0
                          => Credit = IF WinnerOf(arena).roasterId = currentUser.id
                                      THEN EntrantReward(arena) ELSE 0]_vars

\* C23 witness: Me wrote the winner of an arena of two entries created by
\* another user, staked nothing, and has been credited 0.7 * 0.05 + 0.7 * 0.01
\* on the balance that was left after the entry fee.
C23_Witness ==
    /\ inbox = <<>>
    /\ cArenas = arenas
    /\ Len(arenas) = 1
    /\ Resolved(arenas[1])
    /\ arenas[1].opId # Me
    /\ Len(arenas[1].roasts) = 2
    /\ arenas[1].winnerRoastId = arenas[1].roasts[1].id
    /\ arenas[1].roasts[1].roasterId = Me
    /\ arenas[1].roasts[2].roasterId # Me
    /\ \A key \in ArenaIds \X RoastIds : staked[key] = 0
    /\ currentUser.balance = Airdrop - EntryFee + 350 + 70

\* C24: when the observer learns that an arena resolved with a winner, the
\* user who created the arena is credited the originator reward
\* 0.05 * (L + W), whether the user backed or wrote entries or not; a user
\* who did not write the winner and has nothing on it is credited exactly
\* that as the originator, and nothing otherwise.
C24_OriginatorIsPaid ==
    [][\A i \in 1..MaxArenas :
          (SeesResolution(i)
           /\ WinnerOf(Head(inbox).arenas[i]).roasterId # currentUser.id)
             => LET arena == Head(inbox).arenas[i]
                IN  /\ arena.opId = currentUser.id
                          => Credit >= OriginatorReward(arena)
                    /\ MyStakeOnWinner(arena) = 0
                          => Credit = IF arena.opId = currentUser.id
                                      THEN OriginatorReward(arena) ELSE 0]_vars

\* C24 witness: Me created the arena, wrote the entry that lost and backed
\* it with 0.05; another user's entry won with 0.1 on it; Me has been
\* credited 0.05 * 0.15 on what was left of the balance.
C24_Witness ==
    /\ inbox = <<>>
    /\ cArenas = arenas
    /\ Len(arenas) = 1
    /\ Resolved(arenas[1])
    /\ arenas[1].opId = Me
    /\ Len(arenas[1].roasts) = 2
    /\ arenas[1].winnerRoastId = arenas[1].roasts[1].id
    /\ arenas[1].roasts[1].roasterId # Me
    /\ arenas[1].roasts[1].backedStake = 2 * StakeAmount
    /\ arenas[1].roasts[2].roasterId = Me
    /\ arenas[1].roasts[2].backedStake = StakeAmount
    /\ staked[<<arenas[1].id, arenas[1].roasts[2].id>>] = StakeAmount
    /\ staked[<<arenas[1].id, arenas[1].roasts[1].id>>] = 0
    /\ currentUser.balance = Airdrop - ArenaStake - EntryFee - StakeAmount + 75

\* C25: the rewards add up for one user: when the observer learns that an
\* arena resolved whose originator and winning author are both its user, the
\* user is credited the originator reward plus the entrant reward, plus the
\* backer share c + (c / W) * 0.9 * L when the user has c > 0 on the winner.
C25_RewardsAreCumulative ==
    [][\A i \in 1..MaxArenas :
          (/\ SeesResolution(i)
           /\ Head(inbox).arenas[i].opId = currentUser.id
           /\ WinnerOf(Head(inbox).arenas[i]).roasterId = currentUser.id)
             => LET arena == Head(inbox).arenas[i]
                IN  Credit = OriginatorReward(arena) + EntrantReward(arena)
                             + (IF MyStakeOnWinner(arena) > 0
                                THEN BackerShare(MyStakeOnWinner(arena),
                                                 WinnerOf(arena).backedStake,
                                                 SumBacked(arena.roasts, 1,
                                                           arena.winnerRoastId))
                                ELSE 0)]_vars

----
\* What the server and an observer share of an arena collection: all of it
\* but myBackedAmount, which the App keeps for itself in its own copy.
Shared(as) ==
    [i \in 1..Len(as) |->
        [as[i] EXCEPT !.roasts =
            [j \in 1..Len(as[i].roasts) |->
                [as[i].roasts[j] EXCEPT !.myBackedAmount = 0]]]]

\* C21: every step that changes the arena collection ends with a broadcast
\* of the whole collection as the step leaves it, and once the events in
\* flight have reached the observer and its own commands the server, the
\* arena collection of the observer is the one of the server: the same
\* arenas with the same status, winner, entries and backedStake.
C21_ObserversConverge ==
    /\ [][arenas' # arenas
             => /\ Broadcasts(emitted') = {Len(emitted')}
                /\ emitted'[Len(emitted')].arenas = arenas']_vars
    /\ []((inbox = <<>> /\ outbox = <<>>) => Shared(cArenas) = Shared(arenas))

\* C21 witness: the observer has staked on an entry, the server has applied
\* the stake, the arena has resolved since, and the observer has handled
\* every event: its copy shows the stake in backedStake and the winner.
C21_Witness ==
    /\ inbox = <<>>
    /\ outbox = <<>>
    /\ \E i \in 1..Len(cArenas) :
          /\ Resolved(cArenas[i])
          /\ cArenas[i].winnerRoastId # None
          /\ \E j \in 1..Len(cArenas[i].roasts) :
                /\ cArenas[i].roasts[j].backedStake > 0
                /\ staked[<<cArenas[i].id, cArenas[i].roasts[j].id>>] > 0

----
\* An entry without its backedStake, the one field a stake-roast rewrites.
EntryAsSubmitted(roast) == [roast EXCEPT !.backedStake = 0]

\* C31: arenas and entries are never deleted and keep their order: in every
\* step the arenas of the store stay where they were, counted from the end,
\* with their ids, no id leaves the set of arena ids, the entries an arena
\* had are the first entries it has afterwards, a Resolved arena stays in the
\* store, and every snapshot broadcast carries the whole store.
C31_NothingIsDeleted ==
    [][/\ Len(arenas') >= Len(arenas)
       /\ {arenas[i].id : i \in 1..Len(arenas)}
             \subseteq {arenas'[i].id : i \in 1..Len(arenas')}
       /\ \A k \in 1..Len(arenas) :
             /\ FromEnd(arenas', k).id = FromEnd(arenas, k).id
             /\ Len(FromEnd(arenas', k).roasts) >= Len(FromEnd(arenas, k).roasts)
             /\ \A j \in 1..Len(FromEnd(arenas, k).roasts) :
                   EntryAsSubmitted(FromEnd(arenas', k).roasts[j])
                      = EntryAsSubmitted(FromEnd(arenas, k).roasts[j])
             /\ Resolved(FromEnd(arenas, k)) => Resolved(FromEnd(arenas', k))
       /\ \A m \in Broadcasts(emitted') : emitted'[m].arenas = arenas']_vars

\* C31 witness: an arena has just been created in a store that holds a
\* Resolved arena with an entry, and the snapshot shows both.
C31_Witness ==
    /\ JustHandled("dropped")
    /\ Len(arenas) = 2
    /\ Resolved(arenas[2])
    /\ Len(arenas[2].roasts) >= 1
    /\ ~Resolved(arenas[1])
    /\ emitted[Len(emitted)].arenas = arenas

\* The arenas of the collection stand with the latest deadline first, that
\* is with the latest creation first, the deadline being the time of creation
\* plus the duration.
NewestFirst(as) ==
    \A i, j \in 1..Len(as) : i < j => as[i].endTime >= as[j].endTime

\* C32: the arena collection is in reverse creation order: a step puts a new
\* arena nowhere but in front of the arenas that were there, which keep their
\* order, so the store, the copy of the observer and the Active view of the
\* App list the latest arena first; and the Active view and the Resolved view
\* of the App divide the copy between them.
C32_ReverseCreationOrder ==
    /\ [][/\ Len(arenas') \in {Len(arenas), Len(arenas) + 1}
           /\ \A k \in 1..Len(arenas) :
                 /\ FromEnd(arenas', k).id = FromEnd(arenas, k).id
                 /\ FromEnd(arenas', k).endTime = FromEnd(arenas, k).endTime
           /\ Len(arenas') = Len(arenas) + 1
                 => arenas'[1].endTime = now + ArenaDuration]_vars
    /\ [](/\ NewestFirst(arenas)
          /\ NewestFirst(cArenas)
          /\ NewestFirst(liveArenas(cArenas))
          /\ Len(liveArenas(cArenas)) + Len(deadArenas(cArenas)) = Len(cArenas)
          /\ \A i \in 1..Len(cArenas) :
                (cArenas[i].status = "active") # (cArenas[i].status = "resolved"))

\* C32 witness: the observer shows two Active arenas created at different
\* times, the later one first.
C32_Witness ==
    /\ Len(liveArenas(cArenas)) = 2
    /\ liveArenas(cArenas)[1].endTime > liveArenas(cArenas)[2].endTime
    /\ cArenas = arenas

\* C36: the recorded winner is stable and well-formed: a winnerRoastId that
\* is set is the same in every later state, and it is the id of one of the
\* entries of its arena, in every state.
C36_WinnerStableAndPresent ==
    /\ [][\A k \in 1..Len(arenas) :
             FromEnd(arenas, k).winnerRoastId # None
                => FromEnd(arenas', k).winnerRoastId
                      = FromEnd(arenas, k).winnerRoastId]_vars
    /\ [](\A i \in 1..Len(arenas) :
             arenas[i].winnerRoastId # None
                => \E j \in 1..Len(arenas[i].roasts) :
                      arenas[i].roasts[j].id = arenas[i].winnerRoastId)

\* The activity-update messages among the given ones.
ActivityUpdates(msgs) == {m \in 1..Len(msgs) : msgs[m].event = "activity-update"}

\* C39: a command that does not change the arena collection leaves the
\* Activity Log as it was: a submit-roast or stake-roast that names an unknown
\* arena, and a stake-roast that names an unknown entry, log nothing and emit
\* no activity-update.
C39_FailedCommandKeepsLog ==
    [][/\ \A arenaId \in ArenaIds, roastData \in RoastPayloads :
             (~HasArena(arenaId) /\ SubmitRoast(arenaId, roastData))
                => /\ activityLog' = activityLog
                   /\ ActivityUpdates(emitted') = {}
       /\ \A arenaId \in ArenaIds, roastId \in RoastIds, amount \in StakeAmounts,
             userHandle \in Others :
             (~HasRoast(arenaId, roastId)
                /\ StakeRoast(arenaId, roastId, amount, userHandle))
                => /\ activityLog' = activityLog
                   /\ ActivityUpdates(emitted') = {}]_vars

\* C34: when the observer learns that an arena resolved whose winner has
\* backedStake 0, no backer share is credited: the credit is the entrant
\* reward if the user wrote the winner and nothing otherwise, the originator
\* reward being 0 as nothing was backed.
C34_NoBackerShareOnEmptyPool ==
    [][\A i \in 1..MaxArenas :
          (SeesResolution(i) /\ WinnerOf(Head(inbox).arenas[i]).backedStake = 0)
             => LET arena == Head(inbox).arenas[i]
                IN  /\ OriginatorReward(arena) = 0
                    /\ Credit = IF WinnerOf(arena).roasterId = currentUser.id
                                THEN EntrantReward(arena) ELSE 0]_vars

\* C34 witness: Me created the arena and wrote the first of its two entries,
\* nobody backed an entry, the first entry won, and Me has been credited the
\* entrant reward alone.
C34_Witness ==
    /\ inbox = <<>>
    /\ cArenas = arenas
    /\ Len(arenas) = 1
    /\ Resolved(arenas[1])
    /\ arenas[1].opId = Me
    /\ Len(arenas[1].roasts) = 2
    /\ arenas[1].roasts[1].roasterId = Me
    /\ arenas[1].roasts[2].roasterId # Me
    /\ arenas[1].winnerRoastId = arenas[1].roasts[1].id
    /\ \A j \in 1..2 : arenas[1].roasts[j].backedStake = 0
    /\ currentUser.balance = Airdrop - ArenaStake - EntryFee + 350 + 70

\* What the App of another user credits to that user for the arena.
CreditedTo(arena, userId) == Payout(arena, [id |-> userId, balance |-> 0])

\* What the Apps of the given users credit together.
RECURSIVE CreditedToAll(_, _)
CreditedToAll(arena, ids) ==
    IF ids = {} THEN 0
    ELSE LET u == CHOOSE u \in ids : TRUE
         IN  CreditedTo(arena, u) + CreditedToAll(arena, ids \ {u})

\* The backer pool of spec 4.2: all winning backers together get their
\* stakes back and 0.9 of the losing pool, W + 0.9 * L, if W > 0.
BackerPool(arena) ==
    IF WinnerOf(arena).backedStake > 0
    THEN WinnerOf(arena).backedStake
         + (9 * SumBacked(arena.roasts, 1, arena.winnerRoastId)) \div 10
    ELSE 0

\* The total stake placed in the arena:
\* originatorStake + entryCount * entryStake + L + W.
TotalStake(arena) ==
    ArenaStake + Len(arena.roasts) * EntryFee + SumBacked(arena.roasts, 1, None)

C37_PayoutAtMostOnce ==
    [][HandlesSnapshot
          => \A k \in 1..Len(Head(inbox).arenas) :
                JustResolvedFor(prevArenasRef, FromEnd(Head(inbox).arenas, k))
                   => /\ k <= Len(prevArenasRef)
                      /\ FromEnd(prevArenasRef, k).status = "active"]_vars
\* The backlog of the connection has been read.
ReplayDelivered == \A n \in 1..Len(inbox) : inbox[n].to # "socket"

\* C38: once the backlog replay has been delivered, the observer's feed lists
\* its entries as the Activity Log does, the most recent at index 0, and every
\* entry received afterwards is placed in front of the feed.
C38_FeedNewestFirst ==
    /\ [](ReplayDelivered
            => \A n \in 1..(Len(activityFeed) - 1) :
                  activityFeed[n].id > activityFeed[n + 1].id)
    /\ [][(/\ ReplayDelivered
           /\ inbox # <<>>
           /\ Head(inbox).event = "activity-update"
           /\ inbox' = Tail(inbox))
             => activityFeed'[1] = Head(inbox).log]_vars

\* The create-arena commands of the observer that wait on its socket.
PendingCreates(box) == {n \in 1..Len(box) : box[n].cmd = "create-arena"}

\* C33: createArena is refused while the user's balance is below the creation
\* cost: no step from such a state sends a create-arena command or takes the
\* creation cost off the balance (only an entry fee is debited, with its
\* submit-roast command), and when no earlier create-arena command of the
\* user waits on the socket, no step adds an arena, logs a creation or
\* broadcasts a longer arena collection.
C33_CreateRefusedWhenUnfunded ==
    [][(currentUser # NoUser /\ currentUser.balance < ArenaStake)
          => /\ Cardinality(PendingCreates(outbox'))
                   <= Cardinality(PendingCreates(outbox))
             /\ currentUser'.balance < currentUser.balance
                   => /\ currentUser'.balance = currentUser.balance - EntryFee
                      /\ outbox' # <<>>
                      /\ outbox'[Len(outbox')].cmd = "submit-roast"
             /\ PendingCreates(outbox) = {}
                   => /\ Len(arenas') = Len(arenas)
                      /\ NewLogsOfKind({"dropped"}) = {}
                      /\ \A m \in Broadcasts(emitted') :
                            Len(emitted'[m].arenas) = Len(arenas)]_vars

\* After a stake on an entry of its own the user cannot pay for an arena, can
\* pay for an entry, and nothing but the balance keeps the App from sending a
\* create-arena command.
C33_Witness ==
    /\ currentUser # NoUser
    /\ currentUser.balance < ArenaStake
    /\ currentUser.balance >= EntryFee
    /\ currentUser.balance < Airdrop - Airdrop \div 2
    /\ outbox = <<>>
    /\ inbox = <<>>
    /\ RoomForArena
    /\ \E i \in 1..Len(arenas) : \E j \in 1..Len(arenas[i].roasts) :
          /\ arenas[i].roasts[j].roasterId = Me
          /\ arenas[i].roasts[j].backedStake = StakeAmount

\* C40: the balance of the observer's user is never negative.
C40_BalanceNeverNegative == currentUser # NoUser => currentUser.balance >= 0

\* The user has just spent the last of the balance.
C40_Witness ==
    /\ currentUser # NoUser
    /\ currentUser.balance = 0
    /\ outbox # <<>>

====
